---- MODULE Spec2Model ----
(***************************************************************************)
(* Model of the directory-listing CLI `ls` (AlexandrosLiaskos/ls).         *)
(*                                                                         *)
(* Two layouts of the same program are modelled side by side:              *)
(*   "table"    - src/main.go            (TYPE/NAME/EXT/SIZE table)         *)
(*   "sections" - src/unnamed/part_001   (dirs section, files section)     *)
(*                                                                         *)
(* Text is modelled as a sequence of character codes (ASCII bytes; the     *)
(* ellipsis is the single code point 8230).  A byte count (int64) is       *)
(* modelled as its little-endian base-1024 digit sequence without leading  *)
(* zeros, so that sizes up to 2^63-1 stay within TLC's integers.           *)
(***************************************************************************)
EXTENDS Integers, Sequences, FiniteSets

VARIABLES
    layout,     \* which of the two programs runs: "table" or "sections"
    pc,         \* position in main
    args,       \* os.Args[1:] not yet consumed by the argument loop
    showAll,    \* main: showAll
    filesOnly,  \* main: filesOnly
    target,     \* main: target
    entries,    \* result of os.ReadDir(target)
    idx,        \* number of entries the loop has visited
    items,      \* main.go: items
    dirs,       \* part_001: dirs
    files,      \* part_001: files
    stdout,     \* lines written to standard output
    stderr,     \* lines written to standard error
    exitCode,   \* process exit status, -1 while running
    hsIn,       \* argument of the size formatter under test
    hsOut       \* its result

vars == <<layout, pc, args, showAll, filesOnly, target, entries, idx,
          items, dirs, files, stdout, stderr, exitCode, hsIn, hsOut>>

(***************************************************************************)
(* Character codes.                                                        *)
(***************************************************************************)
Dot == 46
Space == 32
Ellipsis == 8230
EmDash == 8212

(***************************************************************************)
(* Byte counts: base-1024 digits, least significant first.                 *)
(***************************************************************************)
Base == 1024

\* 2^n for small n
RECURSIVE Pow2(_)
Pow2(n) == IF n = 0 THEN 1 ELSE 2 * Pow2(n - 1)

\* number of binary digits of n
RECURSIVE BitLen(_)
BitLen(n) == IF n = 0 THEN 0 ELSE 1 + BitLen(n \div 2)

\* value of a digit sequence (only used where it fits)
RECURSIVE DigitsVal(_)
DigitsVal(d) == IF d = <<>> THEN 0 ELSE Head(d) + Base * DigitsVal(Tail(d))

\* digits of a small natural number
RECURSIVE ToDigits(_)
ToDigits(n) == IF n = 0 THEN <<>> ELSE <<n % Base>> \o ToDigits(n \div Base)

\* d + c, for a small carry c
RECURSIVE AddDigits(_, _)
AddDigits(d, c) ==
    IF c = 0 THEN d
    ELSE IF d = <<>> THEN <<c>>
    ELSE LET s == Head(d) + c
         IN  <<s % Base>> \o AddDigits(Tail(d), s \div Base)

\* d * m + c over a fixed number of digits: the product's digits and the
\* carry out of the top digit
RECURSIVE MulDigits(_, _, _)
MulDigits(d, m, c) ==
    IF d = <<>> THEN [digits |-> <<>>, carry |-> c]
    ELSE LET p == Head(d) * m + c
             rest == MulDigits(Tail(d), m, p \div Base)
         IN  [digits |-> <<p % Base>> \o rest.digits, carry |-> rest.carry]

\* number of binary digits of the byte count b
BitLenDigits(b) ==
    IF b = <<>> THEN 0 ELSE 10 * (Len(b) - 1) + BitLen(b[Len(b)])

(***************************************************************************)
(* float64(b): an int64 converts to the nearest value with a 53-bit        *)
(* mantissa, ties to the even mantissa.  At most 10 bits are dropped, all  *)
(* of them in the lowest digit.                                            *)
(***************************************************************************)
MantissaBits == 53

Float64(b) ==
    IF BitLenDigits(b) <= MantissaBits THEN b
    ELSE LET drop == BitLenDigits(b) - MantissaBits
             g == Pow2(drop)
             r == b[1] % g
             kept == [b EXCEPT ![1] = b[1] - r]
             odd == IF drop < 10 THEN ((b[1] \div g) % 2) = 1
                    ELSE (b[2] % 2) = 1
             up == 2 * r > g \/ (2 * r = g /\ odd)
         IN  IF up THEN AddDigits(kept, g) ELSE kept

(***************************************************************************)
(* humanSizeParts / humanSize                                              *)
(***************************************************************************)
units == <<"B", "K", "M", "G", "T">>

\* int(math.Log(float64(b)) / math.Log(1024)) for b > 0.  The float quotient
\* truncates to floor(log1024 b) on every int64 up to the clamp (checked
\* against the float arithmetic at and around every power of two), which in
\* base 1024 is the digit count minus one.
LogIndex(b) == Len(b) - 1

ClampIndex(i) == IF i >= Len(units) THEN Len(units) - 1 ELSE i

\* float64(b) / math.Pow(1024, i): dividing by a power of two is exact, so
\* the value is the digits above position i and the fraction below it.
ScaledVal(b, i) ==
    LET f == Float64(b)
    IN  [whole |-> DigitsVal(SubSeq(f, i + 1, Len(f))),
         frac  |-> SubSeq(f, 1, i)]

\* fraction digits (non-empty) compared with one half: -1, 0 or 1
CmpHalf(frac) ==
    LET top == frac[Len(frac)]
        restZero == \A j \in 1..(Len(frac) - 1) : frac[j] = 0
    IN  IF top > Base \div 2 \/ (top = Base \div 2 /\ ~restZero) THEN 1
        ELSE IF top = Base \div 2 /\ restZero THEN 0
        ELSE -1

\* fmt.Sprintf("%d", n)
FmtInt(n) == [whole |-> n, frac |-> <<>>]

\* fmt.Sprintf("%.1f", val): the exact value rounded to one decimal, a tie
\* going to the even digit
FmtOneDecimal(val) ==
    LET m == MulDigits(val.frac, 10, 0)
        t0 == 10 * val.whole + m.carry
        c == IF val.frac = <<>> THEN -1 ELSE CmpHalf(m.digits)
        t == IF c = 1 \/ (c = 0 /\ t0 % 2 = 1) THEN t0 + 1 ELSE t0
    IN  [whole |-> t \div 10, frac |-> <<t % 10>>]

humanSizeParts(b) ==
    IF b = <<>> THEN [num |-> FmtInt(0), unit |-> "B"]
    ELSE LET i == ClampIndex(LogIndex(b))
             val == ScaledVal(b, i)
         IN  IF i = 0 THEN [num |-> FmtInt(DigitsVal(b)), unit |-> "B"]
             ELSE IF val.whole >= 10
                  THEN [num |-> FmtInt(val.whole), unit |-> units[i + 1]]
                  ELSE [num |-> FmtOneDecimal(val), unit |-> units[i + 1]]

\* part_001 formats the same two parts into one string, joined by a space
humanSize(b) ==
    LET p == humanSizeParts(b) IN <<p.num, " ", p.unit>>

(***************************************************************************)
(* Strings as sequences of character codes.                                *)
(***************************************************************************)
\* len(s): the UTF-8 byte length (the dash and the ellipsis take 3 bytes)
RECURSIVE ByteLen(_)
ByteLen(s) ==
    IF s = <<>> THEN 0
    ELSE (IF Head(s) < 128 THEN 1 ELSE 3) + ByteLen(Tail(s))

\* strings.Repeat(" ", n)
Spaces(n) == [k \in 1..n |-> Space]

\* strings.HasPrefix(name, ".")
HasDotPrefix(name) == Len(name) >= 1 /\ name[1] = Dot

\* strings.ToLower on ASCII text
LowerCode(c) == IF c >= 65 /\ c <= 90 THEN c + 32 ELSE c

ToLower(s) == [k \in 1..Len(s) |-> LowerCode(s[k])]

\* s < t on Go strings: bytewise lexicographic order
RECURSIVE StrLess(_, _)
StrLess(s, t) ==
    IF t = <<>> THEN FALSE
    ELSE IF s = <<>> THEN TRUE
    ELSE IF Head(s) # Head(t) THEN Head(s) < Head(t)
    ELSE StrLess(Tail(s), Tail(t))

\* filepath.Ext(name): the suffix starting at the last dot, "" without one
RECURSIVE ExtFrom(_, _)
ExtFrom(name, i) ==
    IF i < 1 THEN <<>>
    ELSE IF name[i] = Dot THEN SubSeq(name, i, Len(name))
    ELSE ExtFrom(name, i - 1)

Ext(name) == ExtFrom(name, Len(name))

\* strings.TrimPrefix(s, ".")
TrimDotPrefix(s) == IF HasDotPrefix(s) THEN Tail(s) ELSE s

\* ext := strings.TrimPrefix(filepath.Ext(name), ".") unless isDir
ExtOf(name, isDir) == IF isDir THEN <<>> ELSE TrimDotPrefix(Ext(name))

pad(s, width) ==
    IF ByteLen(s) >= width THEN s ELSE s \o Spaces(width - ByteLen(s))

maxNameLen == 50

\* part_001 truncate: len and the slice count bytes
truncate(s) ==
    IF ByteLen(s) <= maxNameLen THEN s
    ELSE SubSeq(s, 1, maxNameLen - 1) \o <<Ellipsis>>

(***************************************************************************)
(* Inputs: the command line and the file system.                           *)
(***************************************************************************)
MaxArgs == 2
MaxEntries == 2

Layouts == {"table", "sections"}

ArgTokens == {"-a", "--all", "-f", "--files", "-h", "--help", "-x", "d", "nx"}

\* strings.HasPrefix(arg, "-") on the tokens above
HasDashPrefix(arg) == arg \in {"-a", "--all", "-f", "--files", "-h", "--help", "-x"}

ArgLists == UNION {[1..n -> ArgTokens] : n \in 0..MaxArgs}

\* os.ReadDir fails on the path "nx" (missing, unreadable or not a
\* directory) and succeeds on "." and "d"
ReadDirFails(path) == path = "nx"

\* candidate file names: "a.b", "B", ".g" and a name one byte longer than
\* maxNameLen
NameAB == <<97, Dot, 98>>
NameB == <<66>>
NameDotG == <<Dot, 103>>
NameLong == [k \in 1..(maxNameLen + 1) |-> 120]
Names == {NameAB, NameB, NameDotG, NameLong}

\* what the file system reports for one child, apart from its name:
\*   type    the DirEntry type: "file", "dir" or "symlink"
\*   infoOK  whether e.Info() (lstat) succeeds
\*   size    info.Size() of the child itself
\*   link    for a symlink, how resolving it ends: "dir" or "file" (the kind
\*           of the target), "evalErr" (filepath.EvalSymlinks fails) or
\*           "statErr" (os.Stat of the resolved path fails); "none" otherwise
\*   tsize   the size of the resolved target
Shape(type, infoOK, size, link, tsize) ==
    [type |-> type, infoOK |-> infoOK, size |-> size, link |-> link, tsize |-> tsize]

DirSize == ToDigits(4096)
LinkSize == ToDigits(7)
FileSizes == {<<>>, ToDigits(999), ToDigits(10240)}

Shapes ==
    {Shape("file", TRUE, sz, "none", <<>>) : sz \in FileSizes}
    \cup {Shape("file", FALSE, <<>>, "none", <<>>),
          Shape("dir", TRUE, DirSize, "none", <<>>),
          Shape("symlink", TRUE, LinkSize, "dir", DirSize),
          Shape("symlink", TRUE, LinkSize, "file", ToDigits(10240)),
          Shape("symlink", TRUE, LinkSize, "evalErr", <<>>),
          Shape("symlink", TRUE, LinkSize, "statErr", <<>>),
          Shape("symlink", FALSE, <<>>, "evalErr", <<>>)}

Child(name, sh) ==
    [name |-> name, type |-> sh.type, infoOK |-> sh.infoOK, size |-> sh.size,
     link |-> sh.link, tsize |-> sh.tsize]

\* a directory: at most MaxEntries children with distinct names
Directories ==
    UNION {{{Child(n, f[n]) : n \in ns} : f \in [ns -> Shapes]} :
           ns \in {x \in SUBSET Names : Cardinality(x) <= MaxEntries}}

\* os.ReadDir returns the children sorted by file name
RECURSIVE ReadDirOrder(_)
ReadDirOrder(d) ==
    IF d = {} THEN <<>>
    ELSE LET first == CHOOSE c \in d : \A o \in d \ {c} : StrLess(c.name, o.name)
         IN  <<first>> \o ReadDirOrder(d \ {first})

(***************************************************************************)
(* main: argument loop and os.ReadDir                                      *)
(***************************************************************************)
NoSize == <<>>

Init ==
    /\ layout \in Layouts
    /\ pc = "args"
    /\ args \in ArgLists
    /\ showAll = FALSE
    /\ filesOnly = FALSE
    /\ target = "."
    /\ entries = <<>>
    /\ idx = 0
    /\ items = <<>>
    /\ dirs = <<>>
    /\ files = <<>>
    /\ stdout = <<>>
    /\ stderr = <<>>
    /\ exitCode = -1
    /\ hsIn = NoSize
    /\ hsOut = <<>>

Line(kind) == [kind |-> kind]

UsageLines == <<Line("usage"), Line("usage"), Line("usage"), Line("usage")>>

\* case "-a", "--all"
ArgAll ==
    /\ pc = "args" /\ args # <<>>
    /\ Head(args) \in {"-a", "--all"}
    /\ showAll' = TRUE
    /\ args' = Tail(args)
    /\ UNCHANGED <<layout, pc, filesOnly, target, entries, idx, items, dirs,
                   files, stdout, stderr, exitCode, hsIn, hsOut>>

\* case "-f", "--files"
ArgFiles ==
    /\ pc = "args" /\ args # <<>>
    /\ Head(args) \in {"-f", "--files"}
    /\ filesOnly' = TRUE
    /\ args' = Tail(args)
    /\ UNCHANGED <<layout, pc, showAll, target, entries, idx, items, dirs,
                   files, stdout, stderr, exitCode, hsIn, hsOut>>

\* case "-h", "--help": print the usage and return
ArgHelp ==
    /\ pc = "args" /\ args # <<>>
    /\ Head(args) \in {"-h", "--help"}
    /\ stdout' = stdout \o UsageLines
    /\ exitCode' = 0
    /\ pc' = "done"
    /\ UNCHANGED <<layout, args, showAll, filesOnly, target, entries, idx,
                   items, dirs, files, stderr, hsIn, hsOut>>

\* default: a word without a leading dash is the target, anything else is
\* ignored
ArgDefault ==
    /\ pc = "args" /\ args # <<>>
    /\ Head(args) \notin {"-a", "--all", "-f", "--files", "-h", "--help"}
    /\ target' = IF ~HasDashPrefix(Head(args)) THEN Head(args) ELSE target
    /\ args' = Tail(args)
    /\ UNCHANGED <<layout, pc, showAll, filesOnly, entries, idx, items, dirs,
                   files, stdout, stderr, exitCode, hsIn, hsOut>>

\* ReadDirError without the os.Exit(1): the error is reported and main goes
\* on with no entries
ReadDirError_NoExit ==
    /\ pc = "args" /\ args = <<>>
    /\ ReadDirFails(target)
    /\ stderr' = Append(stderr, Line("error"))
    /\ pc' = "loop"
    /\ UNCHANGED <<layout, args, showAll, filesOnly, target, entries, idx,
                   items, dirs, files, stdout, exitCode, hsIn, hsOut>>

\* os.ReadDir(target) fails: one line on standard error, os.Exit(1)
ReadDirError ==
    /\ pc = "args" /\ args = <<>>
    /\ ReadDirFails(target)
    /\ stderr' = Append(stderr, Line("error"))
    /\ exitCode' = 1
    /\ pc' = "done"
    /\ UNCHANGED <<layout, args, showAll, filesOnly, target, entries, idx,
                   items, dirs, files, stdout, hsIn, hsOut>>

\* os.ReadDir(target) succeeds
ReadDirOK ==
    /\ pc = "args" /\ args = <<>>
    /\ ~ReadDirFails(target)
    /\ \E d \in Directories : entries' = ReadDirOrder(d)
    /\ idx' = 0
    /\ pc' = "loop"
    /\ UNCHANGED <<layout, args, showAll, filesOnly, target, items, dirs,
                   files, stdout, stderr, exitCode, hsIn, hsOut>>

(***************************************************************************)
(* main: the loop over the directory entries                               *)
(***************************************************************************)
\* isDot := strings.HasPrefix(name, ".")
IsDot(e) == HasDotPrefix(e.name)

\* isSym := e.Type()&os.ModeSymlink != 0
IsSym(e) == e.type = "symlink"

\* isDir := e.IsDir(), replaced by the target's ri.IsDir() when e is a
\* symlink and both EvalSymlinks and Stat succeed
EffectiveIsDir(e) ==
    IF IsSym(e) /\ e.link \in {"dir", "file"} THEN e.link = "dir"
    ELSE e.type = "dir"

\* Skipped with the hidden filter ignoring -a/--all
Skipped_IgnoresShowAll(e) == IsDot(e) \/ ~e.infoOK

\* the two `continue`s every layout shares: hidden without -a, and a child
\* whose Info() fails
Skipped(e) == (IsDot(e) /\ ~showAll) \/ ~e.infoOK

\* MakeEntry taking a symlink's size from the resolved target (os.Stat)
\* instead of the link itself
MakeEntry_TargetSize(e) ==
    [name  |-> e.name,
     isDir |-> EffectiveIsDir(e),
     isSym |-> IsSym(e),
     size  |-> IF IsSym(e) THEN e.tsize ELSE e.size,
     dot   |-> IsDot(e),
     ext   |-> ExtOf(e.name, EffectiveIsDir(e))]

\* the entry struct built for a child
MakeEntry(e) ==
    [name  |-> e.name,
     isDir |-> EffectiveIsDir(e),
     isSym |-> IsSym(e),
     size  |-> e.size,
     dot   |-> IsDot(e),
     ext   |-> ExtOf(e.name, EffectiveIsDir(e))]

\* TableKeeps without the files-only filter
TableKeeps_NoFilesOnly(e) == ~Skipped(e)

\* main.go: `if filesOnly && isDir { continue }`, else append to items
TableKeeps(e) == ~Skipped(e) /\ ~(filesOnly /\ EffectiveIsDir(e))

LoopTable ==
    /\ pc = "loop" /\ layout = "table"
    /\ idx < Len(entries)
    /\ idx' = idx + 1
    /\ items' = IF TableKeeps(entries[idx + 1])
                THEN Append(items, MakeEntry(entries[idx + 1]))
                ELSE items
    /\ UNCHANGED <<layout, pc, args, showAll, filesOnly, target, entries, dirs,
                   files, stdout, stderr, exitCode, hsIn, hsOut>>

\* part_001: `if isDir && !filesOnly { dirs = append(dirs, it) }
\*            else if !isDir { files = append(files, it) }`
GoesToDirs(e) == ~Skipped(e) /\ EffectiveIsDir(e) /\ ~filesOnly

\* GoesToFiles as a plain `else` branch
GoesToFiles_PlainElse(e) == ~Skipped(e) /\ ~GoesToDirs(e)

GoesToFiles(e) == ~Skipped(e) /\ ~GoesToDirs(e) /\ ~EffectiveIsDir(e)

LoopSections ==
    /\ pc = "loop" /\ layout = "sections"
    /\ idx < Len(entries)
    /\ idx' = idx + 1
    /\ dirs' = IF GoesToDirs(entries[idx + 1])
               THEN Append(dirs, MakeEntry(entries[idx + 1]))
               ELSE dirs
    /\ files' = IF GoesToFiles(entries[idx + 1])
                THEN Append(files, MakeEntry(entries[idx + 1]))
                ELSE files
    /\ UNCHANGED <<layout, pc, args, showAll, filesOnly, target, entries, items,
                   stdout, stderr, exitCode, hsIn, hsOut>>

(***************************************************************************)
(* main: sorting                                                           *)
(***************************************************************************)
\* lessTable comparing the names without folding their case
lessTable_CaseSensitive(x, y) ==
    IF x.isDir # y.isDir THEN x.isDir
    ELSE StrLess(x.name, y.name)

\* main.go less: dirs first, then the lower-cased names
lessTable(x, y) ==
    IF x.isDir # y.isDir THEN x.isDir
    ELSE StrLess(ToLower(x.name), ToLower(y.name))

\* part_001 less (sortEntries): the lower-cased names
lessName(x, y) == StrLess(ToLower(x.name), ToLower(y.name))

Perms(n) ==
    {p \in [1..n -> 1..n] : \A i, j \in 1..n : p[i] = p[j] => i = j}

\* the rearrangements of the slice s
Rearranged(s) == {[k \in 1..Len(s) |-> s[p[k]]] : p \in Perms(Len(s))}

\* sort.Slice is not stable: it leaves some rearrangement of the slice in
\* which no element is less than an earlier one

\* main.go: sort.Slice(items, less)
SortedTable(s) ==
    {t \in Rearranged(s) : \A i, j \in 1..Len(s) : i < j => ~lessTable(t[j], t[i])}

\* part_001: sortEntries(items)
sortEntries(s) ==
    {t \in Rearranged(s) : \A i, j \in 1..Len(s) : i < j => ~lessName(t[j], t[i])}

SortTable ==
    /\ pc = "loop" /\ layout = "table"
    /\ idx = Len(entries)
    /\ items' \in SortedTable(items)
    /\ pc' = "render"
    /\ UNCHANGED <<layout, args, showAll, filesOnly, target, entries, idx, dirs,
                   files, stdout, stderr, exitCode, hsIn, hsOut>>

SortSections ==
    /\ pc = "loop" /\ layout = "sections"
    /\ idx = Len(entries)
    /\ dirs' \in sortEntries(dirs)
    /\ files' \in sortEntries(files)
    /\ pc' = "render"
    /\ UNCHANGED <<layout, args, showAll, filesOnly, target, entries, idx, items,
                   stdout, stderr, exitCode, hsIn, hsOut>>

(***************************************************************************)
(* main: rendering.  Styles are decoration; a line records what is printed *)
(* and, for a row, the entry it was printed for (field `it`).              *)
(***************************************************************************)
\* `if len(items) == 0` / `if len(dirs) == 0 && len(files) == 0`
NothingToList ==
    IF layout = "table" THEN Len(items) = 0
    ELSE Len(dirs) = 0 /\ Len(files) = 0

RenderEmpty ==
    /\ pc = "render"
    /\ NothingToList
    /\ stdout' = Append(stdout, Line("empty"))
    /\ exitCode' = 0
    /\ pc' = "done"
    /\ UNCHANGED <<layout, args, showAll, filesOnly, target, entries, idx, items,
                   dirs, files, stderr, hsIn, hsOut>>

\* the column width: the largest of the floor and the byte lengths of the
\* strings
RECURSIVE MaxWidth(_, _)
MaxWidth(strs, floor) ==
    IF strs = <<>> THEN floor
    ELSE LET w == ByteLen(Head(strs))
         IN  MaxWidth(Tail(strs), IF w > floor THEN w ELSE floor)

\* CountTerm with the plural taken from a count of 1 on
CountTerm_PluralFromOne(n, word) == [n |-> n, word |-> word, plural |-> n >= 1]

\* one footer term: fmt.Sprintf("%d dir", n), plus "s" when n > 1
CountTerm(n, word) == [n |-> n, word |-> word, plural |-> n > 1]

\* the footer: the dir term when dirCount > 0, then the file term when
\* fileCount > 0, joined by ", "
FooterParts(dirCount, fileCount) ==
    (IF dirCount > 0 THEN <<CountTerm(dirCount, "dir")>> ELSE <<>>)
    \o (IF fileCount > 0 THEN <<CountTerm(fileCount, "file")>> ELSE <<>>)

FooterLine(dirCount, fileCount) ==
    [kind |-> "footer", parts |-> FooterParts(dirCount, fileCount)]

\* dirCount / fileCount as the row loop of main.go counts them
CountDirs(s) == Cardinality({k \in 1..Len(s) : s[k].isDir})

CountFiles(s) == Cardinality({k \in 1..Len(s) : ~s[k].isDir})

\* main.go: the size cell of a row
SizeCell(it) ==
    IF it.isDir THEN [dash |-> TRUE, num |-> FmtInt(0), unit |-> ""]
    ELSE LET p == humanSizeParts(it.size)
         IN  [dash |-> FALSE, num |-> p.num, unit |-> p.unit]

\* main.go: one row of the table
TableRow(it, maxName, maxExt) ==
    [kind |-> "row",
     it   |-> it,
     tag  |-> IF it.isSym THEN "LINK" ELSE IF it.isDir THEN "DIR" ELSE "FILE",
     name |-> pad(it.name, maxName),
     ext  |-> IF it.ext = <<>> THEN pad(<<EmDash>>, maxExt) ELSE pad(it.ext, maxExt),
     size |-> SizeCell(it)]

RenderTable ==
    /\ pc = "render" /\ layout = "table"
    /\ ~NothingToList
    /\ LET maxName == MaxWidth([k \in 1..Len(items) |-> items[k].name], 4)
           maxExt == MaxWidth([k \in 1..Len(items) |-> items[k].ext], 3)
       IN  stdout' = stdout
                \o <<Line("blank"), Line("header"), Line("rule")>>
                \o [k \in 1..Len(items) |-> TableRow(items[k], maxName, maxExt)]
                \o <<Line("blank"),
                     FooterLine(CountDirs(items), CountFiles(items)),
                     Line("blank")>>
    /\ exitCode' = 0
    /\ pc' = "done"
    /\ UNCHANGED <<layout, args, showAll, filesOnly, target, entries, idx, items,
                   dirs, files, stderr, hsIn, hsOut>>

\* part_001: a name line of either section
SectionRow(it) == [kind |-> "row", it |-> it, name |-> truncate(it.name)]

\* part_001: the subtitle under a file, "size" or "size · ext"
Subtitle(f) ==
    [kind |-> "sub",
     parts |-> <<humanSize(f.size)>> \o (IF f.ext # <<>> THEN <<f.ext>> ELSE <<>>)]

RECURSIVE FileLines(_)
FileLines(fs) ==
    IF fs = <<>> THEN <<>>
    ELSE <<SectionRow(Head(fs)), Subtitle(Head(fs))>> \o FileLines(Tail(fs))

DirsSection ==
    IF Len(dirs) > 0
    THEN <<Line("dirs"), Line("blank")>>
         \o [k \in 1..Len(dirs) |-> SectionRow(dirs[k])]
         \o <<Line("blank")>>
    ELSE <<>>

FilesSection ==
    IF Len(files) > 0
    THEN <<Line("files"), Line("blank")>> \o FileLines(files) \o <<Line("blank")>>
    ELSE <<>>

RenderSections ==
    /\ pc = "render" /\ layout = "sections"
    /\ ~NothingToList
    /\ stdout' = stdout \o <<Line("blank")>> \o DirsSection \o FilesSection
                    \o <<FooterLine(Len(dirs), Len(files)), Line("blank")>>
    /\ exitCode' = 0
    /\ pc' = "done"
    /\ UNCHANGED <<layout, args, showAll, filesOnly, target, entries, idx, items,
                   dirs, files, stderr, hsIn, hsOut>>

Next ==
    \/ ArgAll \/ ArgFiles \/ ArgHelp \/ ArgDefault
    \/ ReadDirError \/ ReadDirOK
    \/ LoopTable \/ LoopSections
    \/ SortTable \/ SortSections
    \/ RenderEmpty \/ RenderTable \/ RenderSections

Spec == Init /\ [][Next]_vars

(***************************************************************************)
(* The size formatter on its own: humanSizeParts (main.go) and humanSize   *)
(* (part_001) applied to one int64 byte count.                             *)
(***************************************************************************)
MaxDigits == 7

SizeDigits == {0, 1, 10, 999, 1023}

\* byte counts 0 <= b < 2^63 whose base-1024 digits are taken from SizeDigits
SizeInputs ==
    {<<>>} \cup
    {b \in UNION {[1..n -> SizeDigits] : n \in 1..MaxDigits} :
        /\ b[Len(b)] # 0
        /\ Len(b) = MaxDigits => b[Len(b)] < 8}

InitSize ==
    /\ layout \in Layouts
    /\ pc = "size"
    /\ hsIn \in SizeInputs
    /\ hsOut = <<>>
    /\ args = <<>>
    /\ showAll = FALSE
    /\ filesOnly = FALSE
    /\ target = "."
    /\ entries = <<>>
    /\ idx = 0
    /\ items = <<>>
    /\ dirs = <<>>
    /\ files = <<>>
    /\ stdout = <<>>
    /\ stderr = <<>>
    /\ exitCode = -1

\* main.go: num, unit := humanSizeParts(it.size)
CallHumanSizeParts ==
    /\ pc = "size" /\ layout = "table"
    /\ hsOut' = <<humanSizeParts(hsIn).num, humanSizeParts(hsIn).unit>>
    /\ pc' = "sized"
    /\ UNCHANGED <<layout, args, showAll, filesOnly, target, entries, idx, items,
                   dirs, files, stdout, stderr, exitCode, hsIn>>

\* part_001: humanSize(f.size)
CallHumanSize ==
    /\ pc = "size" /\ layout = "sections"
    /\ hsOut' = humanSize(hsIn)
    /\ pc' = "sized"
    /\ UNCHANGED <<layout, args, showAll, filesOnly, target, entries, idx, items,
                   dirs, files, stdout, stderr, exitCode, hsIn>>

NextSize == CallHumanSizeParts \/ CallHumanSize

SpecSize == InitSize /\ [][NextSize]_vars

(***************************************************************************)
(* Vocabulary of the properties, stated on the directory that was read and *)
(* on what was printed, independently of the program's own classification. *)
(***************************************************************************)
IsRow(l) == l.kind = "row"

\* the printed listing: the name rows of standard output, in order
Rows == SelectSeq(stdout, IsRow)

\* the run went through the listing and returned from main
Listing == pc = "done" /\ args = <<>> /\ exitCode = 0

\* the children of the directory that was read
Children == {entries[k] : k \in 1..Len(entries)}

\* the child a row was printed for
ChildOf(row) == CHOOSE e \in Children : e.name = row.it.name

IsListed(e) == \E k \in 1..Len(Rows) : Rows[k].it.name = e.name

\* hidden: the name begins with a dot
ClaimHidden(e) == e.name # <<>> /\ e.name[1] = Dot

\* effectively a directory: a directory, or a symlink resolving to one
ClaimEffDir(e) == e.type = "dir" \/ (e.type = "symlink" /\ e.link = "dir")

\* a symlink whose resolution fails
ClaimBrokenLink(e) == e.type = "symlink" /\ e.link \in {"evalErr", "statErr"}

HiddenCount == Cardinality({e \in Children : ClaimHidden(e)})

(***************************************************************************)
(* C1                                                                      *)
(***************************************************************************)
\* C1 as stated: without -f, a directory with N entries of which H are
\* hidden is listed with exactly N-H rows by default and with exactly N rows
\* under -a/--all.
C1_Original ==
    (Listing /\ ~filesOnly) =>
        Len(Rows) = IF showAll THEN Len(entries) ELSE Len(entries) - HiddenCount

\* C1 amended: without -f, the listing has exactly one row per entry whose
\* metadata can be read (Info() succeeds) and that is not hidden; under
\* -a/--all, one row per entry whose metadata can be read.  With every
\* entry readable these are N-H and N.
C1_ListedCounts ==
    (Listing /\ ~filesOnly) =>
        Len(Rows) = Cardinality({e \in Children :
                        e.infoOK /\ (showAll \/ ~ClaimHidden(e))})

\* a run without -f over two entries, one hidden and one unreadable: the
\* default lists none of them, -a lists one
C1_Witness ==
    /\ Listing /\ ~filesOnly /\ showAll
    /\ Len(entries) = 2 /\ HiddenCount = 1
    /\ \E e \in Children : ~e.infoOK /\ ~ClaimHidden(e)
    /\ Len(Rows) = 1

(***************************************************************************)
(* C2                                                                      *)
(***************************************************************************)
\* C2: in the printed listing, of any two rows an effective directory comes
\* before a non-directory, and within one group the row whose lower-cased
\* name is strictly smaller comes first.
C2_SortOrder ==
    Listing =>
        \A i, j \in 1..Len(Rows) :
            i < j =>
                LET a == ChildOf(Rows[i])
                    b == ChildOf(Rows[j])
                IN  /\ ~(ClaimEffDir(b) /\ ~ClaimEffDir(a))
                    /\ ClaimEffDir(a) = ClaimEffDir(b)
                         => ~StrLess(ToLower(b.name), ToLower(a.name))

\* two rows of one group printed against the byte order of their names
\* ("a.b" before "B")
C2_Witness ==
    /\ Listing /\ Len(Rows) = 2
    /\ ClaimEffDir(ChildOf(Rows[1])) = ClaimEffDir(ChildOf(Rows[2]))
    /\ StrLess(Rows[2].it.name, Rows[1].it.name)

(***************************************************************************)
(* C3                                                                      *)
(***************************************************************************)
\* min(floor(log1024 b), 4) for b > 0
ClaimIndex(b) == IF Len(b) - 1 < 4 THEN Len(b) - 1 ELSE 4

\* the integer part of b / 1024^i, computed exactly
ClaimWhole(b, i) == DigitsVal(SubSeq(b, i + 1, Len(b)))

\* the numbers that render b / 1024^i with one decimal place: a number of
\* tenths at distance at most one half from 10 * b / 1024^i
ClaimOneDecimal(b, i) ==
    LET m == MulDigits(SubSeq(b, 1, i), 10, 0)
        t0 == 10 * ClaimWhole(b, i) + m.carry
        c == CmpHalf(m.digits)
    IN  {[whole |-> t \div 10, frac |-> <<t % 10>>] :
            t \in {u \in {t0, t0 + 1} : (u = t0 /\ c <= 0) \/ (u = t0 + 1 /\ c >= 0)}}

ClaimNums(b) ==
    IF b = <<>> THEN {[whole |-> 0, frac |-> <<>>]}
    ELSE LET i == ClaimIndex(b)
         IN  IF i = 0 \/ ClaimWhole(b, i) >= 10
             THEN {[whole |-> ClaimWhole(b, i), frac |-> <<>>]}
             ELSE ClaimOneDecimal(b, i)

ClaimUnit(b) == IF b = <<>> THEN "B" ELSE units[ClaimIndex(b) + 1]

\* C3 as stated: for every byte count b >= 0 the rendered size is "0 B" for
\* b = 0; otherwise the unit is the one at index min(floor(log1024 b), 4) and
\* the number is b for unit B, the integer part of b/1024^index when the
\* scaled value is >= 10, and the scaled value with one decimal otherwise.
C3_Claim ==
    pc = "sized" =>
        /\ hsOut[1] \in ClaimNums(hsIn)
        /\ hsOut[Len(hsOut)] = ClaimUnit(hsIn)
        /\ Len(hsOut) = IF layout = "table" THEN 2 ELSE 3

\* C3 restricted to the byte counts float64 represents exactly (below 2^53)
C3_ExactSizes ==
    (pc = "sized" /\ BitLenDigits(hsIn) <= MantissaBits) =>
        /\ hsOut[1] \in ClaimNums(hsIn)
        /\ hsOut[Len(hsOut)] = ClaimUnit(hsIn)

\* the boundaries C3 documents
C3_Examples ==
    /\ humanSize(<<>>) = <<FmtInt(0), " ", "B">>
    /\ humanSize(ToDigits(999)) = <<FmtInt(999), " ", "B">>
    /\ humanSize(ToDigits(1024)) = <<[whole |-> 1, frac |-> <<0>>], " ", "K">>
    /\ humanSize(ToDigits(10240)) = <<FmtInt(10), " ", "K">>
    /\ humanSize(ToDigits(1048576)) = <<[whole |-> 1, frac |-> <<0>>], " ", "M">>
    /\ humanSize(ToDigits(10485760)) = <<FmtInt(10), " ", "M">>

(***************************************************************************)
(* C4                                                                      *)
(***************************************************************************)
\* positions of the dots of a name
DotsOf(name) == {k \in 1..Len(name) : name[k] = Dot}

\* the extension C4 describes for a non-directory: empty when the name has
\* no dot or its only dot is the hidden prefix, else the text after the
\* last dot
ClaimExt(name) ==
    IF DotsOf(name) = {} \/ DotsOf(name) = {1} THEN <<>>
    ELSE LET last == CHOOSE k \in DotsOf(name) : \A o \in DotsOf(name) : o <= k
         IN  SubSeq(name, last + 1, Len(name))

\* C4 as stated: the extension of a listed entry is empty for a directory,
\* empty for a non-directory whose only dot is its first character, and
\* otherwise the text after the last dot of the name.
C4_Claim ==
    Listing =>
        \A k \in 1..Len(Rows) :
            Rows[k].it.ext = IF ClaimEffDir(ChildOf(Rows[k])) THEN <<>>
                             ELSE ClaimExt(Rows[k].it.name)

\* C4 away from the hidden prefix: names that do not begin with a dot
C4_NonHiddenNames ==
    Listing =>
        \A k \in 1..Len(Rows) :
            ~ClaimHidden(ChildOf(Rows[k])) =>
                Rows[k].it.ext = IF ClaimEffDir(ChildOf(Rows[k])) THEN <<>>
                                 ELSE ClaimExt(Rows[k].it.name)

(***************************************************************************)
(* C5                                                                      *)
(***************************************************************************)
\* a printed name cell without the column padding
RECURSIVE StripPad(_)
StripPad(s) ==
    IF s # <<>> /\ s[Len(s)] = Space THEN StripPad(SubSeq(s, 1, Len(s) - 1))
    ELSE s

\* C5 as stated: a displayed name longer than 50 characters is its first 49
\* characters followed by one ellipsis, a name of at most 50 characters is
\* displayed unchanged, and no displayed name is longer than 50 characters.
C5_Claim ==
    Listing =>
        \A k \in 1..Len(Rows) :
            LET name == Rows[k].it.name
                shown == StripPad(Rows[k].name)
            IN  /\ Len(shown) <= 50
                /\ shown = IF Len(name) > 50
                           THEN SubSeq(name, 1, 49) \o <<Ellipsis>>
                           ELSE name

\* C5 in the two-section layout, the one that calls truncate
C5_SectionsOnly == layout = "sections" => C5_Claim

(***************************************************************************)
(* C6                                                                      *)
(***************************************************************************)
\* a run with -f/--files over a directory whose entries are all
\* subdirectories, at least one
OnlySubdirs ==
    /\ Listing /\ filesOnly
    /\ entries # <<>>
    /\ \A e \in Children : e.type = "dir"

IsFooter(l) == l.kind = "footer"

IsEmptyMsg(l) == l.kind = "empty"

\* C6 as stated: -f/--files on a directory holding only subdirectories
\* prints the "empty" message and a footer without a "dir" term.
C6_Original ==
    OnlySubdirs =>
        /\ Len(SelectSeq(stdout, IsEmptyMsg)) = 1
        /\ Len(SelectSeq(stdout, IsFooter)) = 1
        /\ \A k \in 1..Len(stdout) :
             IsFooter(stdout[k]) =>
                \A t \in 1..Len(stdout[k].parts) : stdout[k].parts[t].word # "dir"

\* C6 amended: -f/--files on a directory holding only subdirectories prints
\* the "empty" message and nothing else: no row and no footer, hence no
\* "dir" term.
C6_EmptyOnly == OnlySubdirs => stdout = <<Line("empty")>>

\* such a run with a subdirectory that is not hidden
C6_Witness ==
    /\ OnlySubdirs
    /\ \E e \in Children : ~ClaimHidden(e) /\ e.infoOK

(***************************************************************************)
(* C7                                                                      *)
(***************************************************************************)
\* the run ended because the target could not be listed: every argument was
\* consumed (a help flag returns before that) and os.ReadDir failed
AccessError == pc = "done" /\ args = <<>> /\ ReadDirFails(target)

\* C7: when the target cannot be listed and no help flag was given, the
\* program writes exactly one error line to standard error, nothing to
\* standard output, and exits with code 1; every other run that ends
\* (listing, "empty", help) exits with code 0 and writes no error line.
C7_ExitCodes ==
    pc = "done" =>
        IF AccessError
        THEN stderr = <<Line("error")>> /\ stdout = <<>> /\ exitCode = 1
        ELSE exitCode = 0 /\ stderr = <<>>

\* a run against the missing path that ended with exit code 1
C7_Witness == AccessError /\ target = "nx" /\ exitCode = 1

(***************************************************************************)
(* C8                                                                      *)
(***************************************************************************)
\* the row printed for a broken link: classified and counted as a file,
\* with the size of the link itself
BrokenLinkRow(e) ==
    \E k \in 1..Len(Rows) :
        /\ Rows[k].it.name = e.name
        /\ Rows[k].it.isDir = FALSE
        /\ Rows[k].it.size = e.size
        /\ layout = "table" => Rows[k].size.dash = FALSE
        /\ layout = "sections" => \E j \in 1..Len(files) : files[j].name = e.name

\* C8 as stated: a symlink whose resolution fails is listed whenever it
\* passes the hidden filter, also under --files, as a non-directory with
\* the size of its own link metadata.
C8_Original ==
    Listing =>
        \A e \in Children :
            (ClaimBrokenLink(e) /\ (showAll \/ ~ClaimHidden(e))) => BrokenLinkRow(e)

\* C8 amended: a symlink whose resolution fails never aborts the listing;
\* provided it passes the hidden filter and its own link metadata can be
\* read (Info() succeeds), it is listed, also under --files, as a
\* non-directory with the size of its own link metadata.
C8_BrokenLinkListed ==
    /\ pc = "done" /\ args = <<>> /\ ~ReadDirFails(target) => exitCode = 0
    /\ Listing =>
        \A e \in Children :
            (ClaimBrokenLink(e) /\ e.infoOK /\ (showAll \/ ~ClaimHidden(e)))
                => BrokenLinkRow(e)

\* a --files run that lists a broken link next to another entry
C8_Witness ==
    /\ Listing /\ filesOnly /\ Len(entries) = 2
    /\ \E e \in Children : ClaimBrokenLink(e) /\ e.link = "statErr" /\ IsListed(e)

(***************************************************************************)
(* C9                                                                      *)
(***************************************************************************)
\* C9: under -f/--files no listed entry is effectively a directory
\* (symlinks resolving to a directory included); for every flag combination
\* every non-hidden, effectively non-directory entry with readable metadata
\* is listed; and a readable entry is left out only for being hidden without
\* -a or for being effectively a directory under -f.
C9_Filters ==
    Listing =>
        /\ filesOnly => \A k \in 1..Len(Rows) : ~ClaimEffDir(ChildOf(Rows[k]))
        /\ \A e \in Children :
             (~ClaimHidden(e) /\ ~ClaimEffDir(e) /\ e.infoOK) => IsListed(e)
        /\ \A e \in Children :
             (e.infoOK /\ ~IsListed(e)) =>
                 \/ ClaimHidden(e) /\ ~showAll
                 \/ ClaimEffDir(e) /\ filesOnly

\* a --files run that drops a symlink to a directory and lists a file
C9_Witness ==
    /\ Listing /\ filesOnly
    /\ \E e \in Children :
         e.type = "symlink" /\ ClaimEffDir(e) /\ ~ClaimHidden(e) /\ ~IsListed(e)
    /\ \E e \in Children : e.type = "file" /\ IsListed(e)

(***************************************************************************)
(* C10                                                                     *)
(***************************************************************************)
ListedDirs == Cardinality({k \in 1..Len(Rows) : ClaimEffDir(ChildOf(Rows[k]))})

ListedFiles == Len(Rows) - ListedDirs

\* the footer C10 describes for d directories and f files
ClaimFooter(d, f) ==
    (IF d = 0 THEN <<>> ELSE <<[n |-> d, word |-> "dir", plural |-> d > 1]>>)
    \o (IF f = 0 THEN <<>> ELSE <<[n |-> f, word |-> "file", plural |-> f > 1]>>)

\* C10: whenever at least one entry is listed there is one footer; its dir
\* count is the number of listed effective directories and its file count
\* the number of the other listed entries; a zero count is omitted, a count
\* of 1 is singular, a larger count takes the plural "s", and the dir term
\* precedes the file term.
C10_Footer ==
    (Listing /\ Len(Rows) > 0) =>
        /\ Len(SelectSeq(stdout, IsFooter)) = 1
        /\ SelectSeq(stdout, IsFooter)[1].parts = ClaimFooter(ListedDirs, ListedFiles)

\* a listing with one directory (through a symlink) and one file
C10_Witness ==
    /\ Listing /\ Len(Rows) = 2
    /\ ListedDirs = 1 /\ ListedFiles = 1
    /\ \E e \in Children : e.type = "symlink" /\ ClaimEffDir(e) /\ IsListed(e)

====
